---- MODULE Spec2Model ----
(***************************************************************************)
(* The interval timer screen (TimerPage) of the fitness timer app, in its  *)
(* two revisions: src/app/(tabs)/timerPage.tsx (expo-av, no time-sync      *)
(* effect) and src/unnamed/part_000 (expo-audio, with the time-sync        *)
(* effect).  One action is one event of the React component: the handler,  *)
(* the re-render it causes and the effects that re-render schedules.       *)
(***************************************************************************)
EXTENDS Integers, Sequences, FiniteSets

(***************************************************************************)
(* Bounds of the model.                                                    *)
(***************************************************************************)
\* the digits "0".."MaxDigit" are the texts typed into a seconds field
MaxDigit == 1
\* ticks counted in one run (a run whose timeLeft is NaN ticks for ever)
MaxTicks == 92
\* characters of a text handed to an edit field by SpecInput
MaxTextLength == 2
\* playLongBeep calls counted from one silence of the sound to the next
MaxBeepCalls == 3

(***************************************************************************)
(* JavaScript numbers: an integer v is <<v>>, NaN is <<>>.                 *)
(***************************************************************************)
Num(v) == <<v>>

NaN == <<>>

IsNaN(x) == x = NaN

JsAdd(a, b) == IF IsNaN(a) \/ IsNaN(b) THEN NaN ELSE Num(a[1] + b[1])

JsSub(a, b) == IF IsNaN(a) \/ IsNaN(b) THEN NaN ELSE Num(a[1] - b[1])

JsMul(a, b) == IF IsNaN(a) \/ IsNaN(b) THEN NaN ELSE Num(a[1] * b[1])

\* a <= b : false as soon as one side is NaN
JsLeq(a, b) == ~IsNaN(a) /\ ~IsNaN(b) /\ a[1] <= b[1]

\* a === b : NaN is not equal to anything, itself included
JsStrictEq(a, b) == ~IsNaN(a) /\ ~IsNaN(b) /\ a[1] = b[1]

\* x || 0 : NaN and 0 are falsy
JsOrZero(x) == IF IsNaN(x) \/ x = Num(0) THEN Num(0) ELSE x

\* Math.min(a, b)
JsMin(a, b) == IF IsNaN(a) \/ IsNaN(b) THEN NaN ELSE IF a[1] <= b[1] THEN a ELSE b

(***************************************************************************)
(* Texts are sequences of one-character strings.  parseInt(text) without a *)
(* radix and number.toString().                                            *)
(***************************************************************************)
DecDigits == <<"0", "1", "2", "3", "4", "5", "6", "7", "8", "9">>

HexLower == <<"0", "1", "2", "3", "4", "5", "6", "7", "8", "9", "a", "b", "c", "d", "e", "f">>

HexUpper == <<"0", "1", "2", "3", "4", "5", "6", "7", "8", "9", "A", "B", "C", "D", "E", "F">>

IsDigit(c, radix) ==
    \E i \in 1..radix : HexLower[i] = c \/ HexUpper[i] = c

DigitValue(c) ==
    (CHOOSE i \in 1..16 : HexLower[i] = c \/ HexUpper[i] = c) - 1

RECURSIVE StripLeadingSpace(_)
StripLeadingSpace(t) ==
    IF t # <<>> /\ Head(t) = " " THEN StripLeadingSpace(Tail(t)) ELSE t

RECURSIVE DigitPrefix(_, _)
DigitPrefix(t, radix) ==
    IF t # <<>> /\ IsDigit(Head(t), radix)
    THEN <<Head(t)>> \o DigitPrefix(Tail(t), radix)
    ELSE <<>>

RECURSIVE DigitsValue(_, _)
DigitsValue(ds, radix) ==
    IF ds = <<>> THEN 0
    ELSE DigitsValue(SubSeq(ds, 1, Len(ds) - 1), radix) * radix + DigitValue(ds[Len(ds)])

ParseInt(text) ==
    LET s == StripLeadingSpace(text)
        signed == s # <<>> /\ Head(s) \in {"-", "+"}
        neg == s # <<>> /\ Head(s) = "-"
        u == IF signed THEN Tail(s) ELSE s
        hex == Len(u) >= 2 /\ u[1] = "0" /\ u[2] \in {"x", "X"}
        radix == IF hex THEN 16 ELSE 10
        body == IF hex THEN SubSeq(u, 3, Len(u)) ELSE u
        ds == DigitPrefix(body, radix)
    IN  IF ds = <<>> THEN NaN
        ELSE Num((IF neg THEN -1 ELSE 1) * DigitsValue(ds, radix))

RECURSIVE NatToText(_)
NatToText(n) ==
    IF n < 10 THEN <<DecDigits[n + 1]>>
    ELSE NatToText(n \div 10) \o <<DecDigits[(n % 10) + 1]>>

NumberToString(x) ==
    IF IsNaN(x) THEN <<"N", "a", "N">>
    ELSE IF x[1] < 0 THEN <<"-">> \o NatToText(-x[1])
    ELSE NatToText(x[1])

(***************************************************************************)
(* The component.                                                          *)
(***************************************************************************)
VARIABLES
    rev,                \* which revision of the screen runs
    mainTimerMinutes,   \* useState(1)
    mainTimerSeconds,   \* useState(30) / useState(0)
    getReadyMinutes,    \* useState(0)
    getReadySeconds,    \* useState(5)
    timeLeft,           \* useState(90) / useState(60)
    isRunning,
    isPaused,
    modalVisible,
    getReadyPlayed,
    intervalActive,     \* intervalRef.current is a live setInterval timer
    liveIntervals,      \* how many setInterval timers are set and not cleared
    longBeepSound,      \* timerPage.tsx: longBeepSound.current holds the loaded sound
    longBeepCount,      \* timerPage.tsx: longBeepCountRef.current
    statusListener,     \* timerPage.tsx: the sound has an onPlaybackStatusUpdate callback
    soundPlaying,       \* timerPage.tsx: the long beep sound is playing
    loadPending,        \* the mount-time load has not settled yet
    written,            \* per key, the text last handed to AsyncStorage.setItem
    store,              \* SpecStore: per key, the text AsyncStorage holds (NULL: none)
    reads,              \* SpecStore: per key, what the load's getItem has read (UNREAD: not yet)
    pendingWrites,      \* SpecStore: the setItem calls made and not yet applied to the store
    lastOp,             \* history: the handler that made the last step
    runTicks,           \* history: ticks since the last start, counted while runClean (at most MaxTicks)
    runClean,           \* history: nothing but ticks happened since the last start
    runStable,          \* history: totalTime and getReadyTime did not change since the last start
    restarted,          \* history: runClean, and the start came right after a completing tick
    beepCalls,          \* history: playLongBeep calls since the sound was last silent (at most MaxBeepCalls)
    playsFinished,      \* history: plays of the sound that ran to their end since then
    storedAtMount,      \* history, SpecStore: the store as it was when the screen mounted
    cues,               \* history: cues emitted since the last start, in order
    tickCues            \* history: cues emitted by the last step, in order

vars == <<rev, mainTimerMinutes, mainTimerSeconds, getReadyMinutes, getReadySeconds,
          timeLeft, isRunning, isPaused, modalVisible, getReadyPlayed,
          intervalActive, liveIntervals, loadPending, written,
          longBeepSound, longBeepCount, statusListener, soundPlaying,
          store, reads, pendingWrites,
          lastOp, runTicks, runClean, runStable, restarted, cues, tickCues,
          beepCalls, playsFinished, storedAtMount>>

\* the store, the operations on it in flight, and its history
storeVars == <<store, reads, pendingWrites, storedAtMount>>

\* the long beep sound of timerPage.tsx and its history
soundVars == <<longBeepSound, longBeepCount, statusListener, soundPlaying,
               beepCalls, playsFinished>>

\* the component's state and the history of its run
timerVars == <<rev, mainTimerMinutes, mainTimerSeconds, getReadyMinutes, getReadySeconds,
               timeLeft, isRunning, isPaused, modalVisible, getReadyPlayed,
               intervalActive, liveIntervals, loadPending, written,
               lastOp, runTicks, runClean, runStable, restarted, cues, tickCues>>

Revisions == {"timerPage", "part_000"}

SecondsPerMinute == 60

MaxSecondsField == 59

STORAGE_KEYS == {"MAIN_TIMER_MINUTES", "MAIN_TIMER_SECONDS", "GET_READY_MINUTES", "GET_READY_SECONDS"}

\* useState initial values of the two revisions
DefaultMainMinutes(r) == Num(1)

DefaultMainSeconds(r) == IF r = "timerPage" THEN Num(30) ELSE Num(0)

DefaultGetReadyMinutes(r) == Num(0)

DefaultGetReadySeconds(r) == Num(5)

DefaultTimeLeft(r) == IF r = "timerPage" THEN Num(90) ELSE Num(60)

\* const totalTime = mainTimerMinutes * 60 + mainTimerSeconds
TotalTime(mm, ms) == JsAdd(JsMul(mm, Num(SecondsPerMinute)), ms)

\* const getReadyTime = getReadyMinutes * 60 + getReadySeconds
GetReadyTime(gm, gs) == JsAdd(JsMul(gm, Num(SecondsPerMinute)), gs)

totalTime == TotalTime(mainTimerMinutes, mainTimerSeconds)

getReadyTime == GetReadyTime(getReadyMinutes, getReadySeconds)

\* the four setItem arguments of saveTimerValues
SaveTimerValues(mm, ms, gm, gs) ==
    [k \in STORAGE_KEYS |->
        CASE k = "MAIN_TIMER_MINUTES" -> NumberToString(mm)
          [] k = "MAIN_TIMER_SECONDS" -> NumberToString(ms)
          [] k = "GET_READY_MINUTES" -> NumberToString(gm)
          [] k = "GET_READY_SECONDS" -> NumberToString(gs)]

\* the first render of the component
InitTimerPage ==
    /\ rev \in Revisions
    /\ mainTimerMinutes = DefaultMainMinutes(rev)
    /\ mainTimerSeconds = DefaultMainSeconds(rev)
    /\ getReadyMinutes = DefaultGetReadyMinutes(rev)
    /\ getReadySeconds = DefaultGetReadySeconds(rev)
    /\ timeLeft = DefaultTimeLeft(rev)
    /\ isRunning = FALSE
    /\ isPaused = FALSE
    /\ modalVisible = FALSE
    /\ getReadyPlayed = FALSE
    /\ intervalActive = FALSE
    /\ liveIntervals = 0
    /\ longBeepSound = FALSE
    /\ longBeepCount = 0
    /\ statusListener = FALSE
    /\ soundPlaying = FALSE
    /\ beepCalls = 0
    /\ playsFinished = 0
    /\ loadPending = TRUE
    /\ written = SaveTimerValues(mainTimerMinutes, mainTimerSeconds, getReadyMinutes, getReadySeconds)
    /\ lastOp = "mount"
    /\ runTicks = 0
    /\ runClean = FALSE
    /\ runStable = FALSE
    /\ restarted = FALSE
    /\ cues = <<>>
    /\ tickCues = <<>>

\* Spec, SpecInput, SpecBeep and SpecLive leave the store out of the state: what it
\* returns is an input of loadTimerValues, what it is handed is written
NoStore == <<>>

Init ==
    /\ InitTimerPage
    /\ store = NoStore
    /\ reads = NoStore
    /\ pendingWrites = {}
    /\ storedAtMount = NoStore

(***************************************************************************)
(* The effects a re-render schedules.                                      *)
(***************************************************************************)
\* TimeSyncEffect without the if (!isRunning) test
TimeSyncEffectWhileRunning(r, oldTotal, oldRunning, newTotal, newRunning, tl) ==
    IF r = "part_000" /\ (newTotal # oldTotal \/ newRunning # oldRunning)
    THEN newTotal
    ELSE tl

\* part_000 only: useEffect(() => { if (!isRunning) setTimeLeft(totalTime) }, [totalTime, isRunning])
TimeSyncEffect(r, oldTotal, oldRunning, newTotal, newRunning, tl) ==
    IF r = "part_000" /\ (newTotal # oldTotal \/ newRunning # oldRunning) /\ ~newRunning
    THEN newTotal
    ELSE tl

\* TimerEffect whose test is if (isRunning), without && !isPaused
TimerEffectIgnoresPause(depsChanged, running, paused, active) ==
    IF depsChanged THEN running ELSE active

\* the timer-logic effect: clears the interval it holds, sets one when running and not paused
TimerEffect(depsChanged, running, paused, active) ==
    IF depsChanged THEN running /\ ~paused ELSE active

\* the timers left by the same effect: its cleanup clears the timer intervalRef holds,
\* its body sets a new one when running and not paused
LiveIntervals(depsChanged, running, paused, active, live) ==
    IF depsChanged
    THEN (IF active THEN live - 1 ELSE live) + (IF running /\ ~paused THEN 1 ELSE 0)
    ELSE live

\* the state after the handler's setState calls: re-render, then the effects
Render(mm, ms, gm, gs, tl, running, paused, modal, played) ==
    LET newTotal == TotalTime(mm, ms)
        newReady == GetReadyTime(gm, gs)
        timerDeps == \/ running # isRunning
                     \/ paused # isPaused
                     \/ newReady # getReadyTime
                     \/ played # getReadyPlayed
        saveDeps == <<mm, ms, gm, gs>> #
                    <<mainTimerMinutes, mainTimerSeconds, getReadyMinutes, getReadySeconds>>
    IN  /\ mainTimerMinutes' = mm
        /\ mainTimerSeconds' = ms
        /\ getReadyMinutes' = gm
        /\ getReadySeconds' = gs
        /\ timeLeft' = TimeSyncEffect(rev, totalTime, isRunning, newTotal, running, tl)
        /\ isRunning' = running
        /\ isPaused' = paused
        /\ modalVisible' = modal
        /\ getReadyPlayed' = played
        /\ intervalActive' = TimerEffect(timerDeps, running, paused, intervalActive)
        /\ liveIntervals' = LiveIntervals(timerDeps, running, paused, intervalActive, liveIntervals)
        /\ written' = IF saveDeps THEN SaveTimerValues(mm, ms, gm, gs) ELSE written
        /\ rev' = rev

\* a re-render that changes the timer state only
RenderTimer(tl, running, paused, modal, played) ==
    Render(mainTimerMinutes, mainTimerSeconds, getReadyMinutes, getReadySeconds,
           tl, running, paused, modal, played)

\* history of the run, for a step that is neither a tick nor a start
HistoryRun(op, mm, ms, gm, gs) ==
    /\ lastOp' = op
    /\ runTicks' = 0
    /\ runClean' = FALSE
    /\ runStable' = (runStable /\ TotalTime(mm, ms) = totalTime /\ GetReadyTime(gm, gs) = getReadyTime)
    /\ restarted' = FALSE
    /\ cues' = cues
    /\ tickCues' = <<>>
    /\ UNCHANGED soundVars

\* the same, of a step that makes no call to the store
History(op, mm, ms, gm, gs) ==
    /\ HistoryRun(op, mm, ms, gm, gs)
    /\ UNCHANGED storeVars

HistoryTimer(op) ==
    History(op, mainTimerMinutes, mainTimerSeconds, getReadyMinutes, getReadySeconds)

(***************************************************************************)
(* The interval callback: setTimeLeft((prev) => ...).  stop stands for     *)
(* setIsRunning(false), setIsPaused(false); cues for the beeps played.     *)
(***************************************************************************)
\* TickUpdater with the completion test off by one: if (prev <= 1)
TickUpdaterEarlyComplete(prev, ready, played) ==
    IF JsLeq(prev, Num(1))
    THEN [timeLeft |-> Num(0), stop |-> TRUE, getReadyPlayed |-> FALSE, cues |-> <<"complete">>]
    ELSE IF JsStrictEq(prev, ready) /\ ~played
    THEN [timeLeft |-> JsSub(prev, Num(1)), stop |-> FALSE, getReadyPlayed |-> TRUE,
          cues |-> <<"get-ready">>]
    ELSE [timeLeft |-> JsSub(prev, Num(1)), stop |-> FALSE, getReadyPlayed |-> played,
          cues |-> <<>>]

\* TickUpdater with the get-ready test written prev <= getReadyTime
TickUpdaterReadyAtOrBelow(prev, ready, played) ==
    IF JsLeq(prev, Num(0))
    THEN [timeLeft |-> Num(0), stop |-> TRUE, getReadyPlayed |-> FALSE, cues |-> <<"complete">>]
    ELSE IF JsLeq(prev, ready) /\ ~played
    THEN [timeLeft |-> JsSub(prev, Num(1)), stop |-> FALSE, getReadyPlayed |-> TRUE,
          cues |-> <<"get-ready">>]
    ELSE [timeLeft |-> JsSub(prev, Num(1)), stop |-> FALSE, getReadyPlayed |-> played,
          cues |-> <<>>]

\* TickUpdater with the get-ready test made on the decremented value: prev - 1 === getReadyTime
TickUpdaterReadyAfterDecrement(prev, ready, played) ==
    IF JsLeq(prev, Num(0))
    THEN [timeLeft |-> Num(0), stop |-> TRUE, getReadyPlayed |-> FALSE, cues |-> <<"complete">>]
    ELSE IF JsStrictEq(JsSub(prev, Num(1)), ready) /\ ~played
    THEN [timeLeft |-> JsSub(prev, Num(1)), stop |-> FALSE, getReadyPlayed |-> TRUE,
          cues |-> <<"get-ready">>]
    ELSE [timeLeft |-> JsSub(prev, Num(1)), stop |-> FALSE, getReadyPlayed |-> played,
          cues |-> <<>>]

\* TickUpdater whose completion branch leaves the timer running
TickUpdaterKeepsRunning(prev, ready, played) ==
    IF JsLeq(prev, Num(0))
    THEN [timeLeft |-> Num(0), stop |-> FALSE, getReadyPlayed |-> FALSE, cues |-> <<"complete">>]
    ELSE IF JsStrictEq(prev, ready) /\ ~played
    THEN [timeLeft |-> JsSub(prev, Num(1)), stop |-> FALSE, getReadyPlayed |-> TRUE,
          cues |-> <<"get-ready">>]
    ELSE [timeLeft |-> JsSub(prev, Num(1)), stop |-> FALSE, getReadyPlayed |-> played,
          cues |-> <<>>]

\* TickUpdater that decrements first and completes on the tick whose result is 0, the
\* get-ready test still made on the value before the decrement
TickUpdaterCompletesOnZeroResult(prev, ready, played) ==
    LET fires == JsStrictEq(prev, ready) /\ ~played
        readyCue == IF fires THEN <<"get-ready">> ELSE <<>>
    IN  IF JsLeq(JsSub(prev, Num(1)), Num(0))
        THEN [timeLeft |-> Num(0), stop |-> TRUE, getReadyPlayed |-> FALSE,
              cues |-> readyCue \o <<"complete">>]
        ELSE [timeLeft |-> JsSub(prev, Num(1)), stop |-> FALSE, getReadyPlayed |-> played \/ fires,
              cues |-> readyCue]

\* TickUpdater that returns prev where it should return prev - 1
TickUpdaterNeverDecrements(prev, ready, played) ==
    IF JsLeq(prev, Num(0))
    THEN [timeLeft |-> Num(0), stop |-> TRUE, getReadyPlayed |-> FALSE, cues |-> <<"complete">>]
    ELSE IF JsStrictEq(prev, ready) /\ ~played
    THEN [timeLeft |-> prev, stop |-> FALSE, getReadyPlayed |-> TRUE, cues |-> <<"get-ready">>]
    ELSE [timeLeft |-> prev, stop |-> FALSE, getReadyPlayed |-> played, cues |-> <<>>]

TickUpdater(prev, ready, played) ==
    IF JsLeq(prev, Num(0))
    THEN [timeLeft |-> Num(0), stop |-> TRUE, getReadyPlayed |-> FALSE, cues |-> <<"complete">>]
    ELSE IF JsStrictEq(prev, ready) /\ ~played
    THEN [timeLeft |-> JsSub(prev, Num(1)), stop |-> FALSE, getReadyPlayed |-> TRUE,
          cues |-> <<"get-ready">>]
    ELSE [timeLeft |-> JsSub(prev, Num(1)), stop |-> FALSE, getReadyPlayed |-> played,
          cues |-> <<>>]

\* the plays a complete cue asks for: if (longBeepCountRef.current < 3)
LongBeepPlays == 3

\* timerPage.tsx playLongBeep: nothing without a loaded sound; else the count is reset,
\* the callback set and the sound played from position 0
PlayLongBeep(loaded, count, listener, playing) ==
    IF ~loaded
    THEN [count |-> count, listener |-> listener, playing |-> playing]
    ELSE [count |-> 0, listener |-> TRUE, playing |-> TRUE]

\* the long beep of a tick: part_000 plays its timerDingPlayer once, which the sound
\* variables do not describe
LongBeep(complete) ==
    IF complete /\ rev = "timerPage"
    THEN LET b == PlayLongBeep(longBeepSound, longBeepCount, statusListener, soundPlaying)
             silent == ~soundPlaying /\ ~statusListener
         IN  /\ longBeepCount' = b.count
             /\ statusListener' = b.listener
             /\ soundPlaying' = b.playing
             /\ beepCalls' = IF ~longBeepSound THEN beepCalls
                              ELSE IF silent THEN 1
                              ELSE IF beepCalls < MaxBeepCalls THEN beepCalls + 1
                              ELSE beepCalls
             /\ playsFinished' = IF longBeepSound /\ silent THEN 0 ELSE playsFinished
             /\ UNCHANGED longBeepSound
    ELSE UNCHANGED soundVars

Tick ==
    /\ intervalActive
    /\ LET u == TickUpdater(timeLeft, getReadyTime, getReadyPlayed)
       IN  /\ RenderTimer(u.timeLeft, isRunning /\ ~u.stop, isPaused /\ ~u.stop,
                          modalVisible, u.getReadyPlayed)
           /\ cues' = cues \o u.cues
           /\ tickCues' = u.cues
           /\ LongBeep(u.stop)
    /\ lastOp' = "tick"
    /\ runTicks' = IF runClean /\ runTicks < MaxTicks THEN runTicks + 1 ELSE runTicks
    /\ UNCHANGED <<loadPending, runClean, runStable, restarted>>
    /\ UNCHANGED storeVars

(***************************************************************************)
(* Button handlers.  The buttons of the screen lie under the modal while   *)
(* the modal is visible.                                                   *)
(***************************************************************************)
\* HandleStart whose resume also calls setGetReadyPlayed(false)
HandleStartResumeRearms(running, paused, tl, played, total) ==
    IF ~running
    THEN [timeLeft |-> total, isRunning |-> TRUE, isPaused |-> FALSE, getReadyPlayed |-> FALSE]
    ELSE IF paused
    THEN [timeLeft |-> tl, isRunning |-> running, isPaused |-> FALSE, getReadyPlayed |-> FALSE]
    ELSE [timeLeft |-> tl, isRunning |-> running, isPaused |-> TRUE, getReadyPlayed |-> played]

\* HandleStart whose pause calls setIsRunning(false) instead of setIsPaused(true)
HandleStartPauseStops(running, paused, tl, played, total) ==
    IF ~running
    THEN [timeLeft |-> total, isRunning |-> TRUE, isPaused |-> FALSE, getReadyPlayed |-> FALSE]
    ELSE IF paused
    THEN [timeLeft |-> tl, isRunning |-> running, isPaused |-> FALSE, getReadyPlayed |-> played]
    ELSE [timeLeft |-> tl, isRunning |-> FALSE, isPaused |-> paused, getReadyPlayed |-> played]

\* HandleStart whose start does not call setTimeLeft(totalTime)
HandleStartKeepsTimeLeft(running, paused, tl, played, total) ==
    IF ~running
    THEN [timeLeft |-> tl, isRunning |-> TRUE, isPaused |-> FALSE, getReadyPlayed |-> FALSE]
    ELSE IF paused
    THEN [timeLeft |-> tl, isRunning |-> running, isPaused |-> FALSE, getReadyPlayed |-> played]
    ELSE [timeLeft |-> tl, isRunning |-> running, isPaused |-> TRUE, getReadyPlayed |-> played]

HandleStart(running, paused, tl, played, total) ==
    IF ~running
    THEN [timeLeft |-> total, isRunning |-> TRUE, isPaused |-> FALSE, getReadyPlayed |-> FALSE]
    ELSE IF paused
    THEN [timeLeft |-> tl, isRunning |-> running, isPaused |-> FALSE, getReadyPlayed |-> played]
    ELSE [timeLeft |-> tl, isRunning |-> running, isPaused |-> TRUE, getReadyPlayed |-> played]

handleStart ==
    /\ ~modalVisible
    /\ LET h == HandleStart(isRunning, isPaused, timeLeft, getReadyPlayed, totalTime)
       IN  RenderTimer(h.timeLeft, h.isRunning, h.isPaused, modalVisible, h.getReadyPlayed)
    /\ IF ~isRunning
       THEN /\ lastOp' = "handleStart"
            /\ runTicks' = 0
            /\ runClean' = TRUE
            /\ runStable' = TRUE
            /\ restarted' = (lastOp = "tick")
            /\ cues' = <<>>
            /\ tickCues' = <<>>
            /\ UNCHANGED soundVars
       ELSE HistoryTimer("handleStart")
    /\ IF ~isRunning THEN UNCHANGED storeVars ELSE TRUE
    /\ UNCHANGED loadPending

\* EditDisabled of an Edit button that is never disabled
EditDisabledNever(running, paused) == FALSE

\* the Edit button's disabled={isRunning && !isPaused}
EditDisabled(running, paused) == running /\ ~paused

handleEdit ==
    /\ ~modalVisible
    /\ ~EditDisabled(isRunning, isPaused)
    /\ RenderTimer(timeLeft, isRunning, isPaused, TRUE, getReadyPlayed)
    /\ HistoryTimer("handleEdit")
    /\ UNCHANGED loadPending

\* HandleSave without its setTimeLeft(totalTime)
HandleSaveKeepsTimeLeft(total) ==
    [timeLeft |-> timeLeft, isRunning |-> FALSE, isPaused |-> FALSE, getReadyPlayed |-> FALSE,
     modalVisible |-> FALSE]

HandleSave(total) ==
    [timeLeft |-> total, isRunning |-> FALSE, isPaused |-> FALSE, getReadyPlayed |-> FALSE,
     modalVisible |-> FALSE]

handleSave ==
    /\ modalVisible
    /\ LET h == HandleSave(totalTime)
       IN  RenderTimer(h.timeLeft, h.isRunning, h.isPaused, h.modalVisible, h.getReadyPlayed)
    /\ HistoryTimer("handleSave")
    /\ UNCHANGED loadPending

\* HandleCancel that stops the run as handleSave does
HandleCancelStopsRun(tl, running, paused, played) ==
    [timeLeft |-> tl, isRunning |-> FALSE, isPaused |-> FALSE, getReadyPlayed |-> FALSE,
     modalVisible |-> FALSE]

HandleCancel(tl, running, paused, played) ==
    [timeLeft |-> tl, isRunning |-> running, isPaused |-> paused, getReadyPlayed |-> played,
     modalVisible |-> FALSE]

handleCancel ==
    /\ modalVisible
    /\ LET h == HandleCancel(timeLeft, isRunning, isPaused, getReadyPlayed)
       IN  RenderTimer(h.timeLeft, h.isRunning, h.isPaused, h.modalVisible, h.getReadyPlayed)
    /\ HistoryTimer("handleCancel")
    /\ UNCHANGED loadPending

\* the modal's onRequestClose (hardware back button): () => setModalVisible(false)
onRequestClose ==
    /\ modalVisible
    /\ RenderTimer(timeLeft, isRunning, isPaused, FALSE, getReadyPlayed)
    /\ HistoryTimer("onRequestClose")
    /\ UNCHANGED loadPending

(***************************************************************************)
(* The four TextInput fields of the modal write the configuration state    *)
(* directly.                                                               *)
(***************************************************************************)
DigitTexts(n) == {<<DecDigits[d + 1]>> : d \in 0..n}

\* texts typed into the main minutes field: a digit, or everything deleted
MainMinuteTexts == {<<"0">>, <<"1">>, <<>>}

\* texts typed into the get-ready minutes field
GetReadyMinuteTexts == {<<"0">>, <<>>}

\* texts typed into a seconds field
SecondTexts == DigitTexts(MaxDigit) \cup {<<>>}

\* onChangeText of a minutes field: parseInt(text) || 0
MinutesInput(text) == JsOrZero(ParseInt(text))

\* onChangeText of a seconds field: Math.min(59, parseInt(text) || 0)
SecondsInput(text) == JsMin(Num(MaxSecondsField), JsOrZero(ParseInt(text)))

OnChangeText(mm, ms, gm, gs) ==
    /\ modalVisible
    /\ Render(mm, ms, gm, gs, timeLeft, isRunning, isPaused, modalVisible, getReadyPlayed)
    /\ History("onChangeText", mm, ms, gm, gs)
    /\ UNCHANGED loadPending

changeMainTimerMinutes ==
    \E text \in MainMinuteTexts :
        OnChangeText(MinutesInput(text), mainTimerSeconds, getReadyMinutes, getReadySeconds)

changeMainTimerSeconds ==
    \E text \in SecondTexts :
        OnChangeText(mainTimerMinutes, SecondsInput(text), getReadyMinutes, getReadySeconds)

changeGetReadyMinutes ==
    \E text \in GetReadyMinuteTexts :
        OnChangeText(mainTimerMinutes, mainTimerSeconds, MinutesInput(text), getReadySeconds)

changeGetReadySeconds ==
    \E text \in SecondTexts :
        OnChangeText(mainTimerMinutes, mainTimerSeconds, getReadyMinutes, SecondsInput(text))

(***************************************************************************)
(* The mount-time load of the stored configuration.                        *)
(***************************************************************************)
NULL == <<"null">>

\* what AsyncStorage.getItem returns for a minutes key: null or a stored number
StoredMinutes == {NULL, <<"0">>}

\* what AsyncStorage.getItem returns for a seconds key: null, a stored number, a corrupt text
StoredSeconds == {NULL, <<"x">>, <<DecDigits[MaxDigit + 1]>>}

\* if (saved !== null) set(parseInt(saved))
Loaded(saved, current) == IF saved # NULL THEN ParseInt(saved) ELSE current

loadTimerValues ==
    /\ loadPending
    /\ \E sm \in StoredMinutes, ss \in StoredSeconds, gm \in StoredMinutes, gs \in StoredSeconds :
          LET mm2 == Loaded(sm, mainTimerMinutes)
              ms2 == Loaded(ss, mainTimerSeconds)
              gm2 == Loaded(gm, getReadyMinutes)
              gs2 == Loaded(gs, getReadySeconds)
          IN  /\ Render(mm2, ms2, gm2, gs2, timeLeft, isRunning, isPaused, modalVisible, getReadyPlayed)
              /\ History("loadTimerValues", mm2, ms2, gm2, gs2)
    /\ loadPending' = FALSE

\* a getItem (or, in part_000, setAudioModeAsync) rejects: the catch only logs
loadTimerValuesFailed ==
    /\ loadPending
    /\ loadPending' = FALSE
    /\ RenderTimer(timeLeft, isRunning, isPaused, modalVisible, getReadyPlayed)
    /\ HistoryTimer("loadTimerValuesFailed")

Next ==
    \/ Tick
    \/ handleStart
    \/ handleEdit
    \/ handleSave
    \/ handleCancel
    \/ onRequestClose
    \/ changeMainTimerMinutes
    \/ changeMainTimerSeconds
    \/ changeGetReadyMinutes
    \/ changeGetReadySeconds
    \/ loadTimerValues
    \/ loadTimerValuesFailed

Spec == Init /\ [][Next]_vars

(***************************************************************************)
(* The long beep sound of timerPage.tsx (expo-av): the mount-time          *)
(* setupAudio loads it, a play that runs to its end calls the status       *)
(* callback playLongBeep has set.                                          *)
(***************************************************************************)
\* setupAudio came to longBeepSound.current = longSound
setupAudio ==
    /\ rev = "timerPage"
    /\ ~longBeepSound
    /\ longBeepSound' = TRUE
    /\ UNCHANGED <<longBeepCount, statusListener, soundPlaying, beepCalls, playsFinished>>
    /\ UNCHANGED timerVars
    /\ UNCHANGED storeVars

\* onPlaybackStatusUpdate with status.didJustFinish: count one more play, then play
\* again or remove the callback
OnPlaybackStatusUpdate(count, listener) ==
    IF ~listener
    THEN [count |-> count, listener |-> listener, playing |-> FALSE]
    ELSE IF count + 1 < LongBeepPlays
    THEN [count |-> count + 1, listener |-> TRUE, playing |-> TRUE]
    ELSE [count |-> count + 1, listener |-> FALSE, playing |-> FALSE]

\* the sound has played to its end
onPlaybackStatusUpdate ==
    /\ soundPlaying
    /\ LET b == OnPlaybackStatusUpdate(longBeepCount, statusListener)
       IN  /\ longBeepCount' = b.count
           /\ statusListener' = b.listener
           /\ soundPlaying' = b.playing
    /\ playsFinished' = IF playsFinished < LongBeepPlays * MaxBeepCalls
                         THEN playsFinished + 1 ELSE playsFinished
    /\ UNCHANGED <<longBeepSound, beepCalls>>
    /\ UNCHANGED timerVars
    /\ UNCHANGED storeVars

NextBeep ==
    \/ setupAudio
    \/ onPlaybackStatusUpdate
    \/ loadTimerValues
    \/ handleStart
    \/ Tick

SpecBeep == Init /\ [][NextBeep]_vars

(***************************************************************************)
(* The store in the state: AsyncStorage, the four getItem calls of the     *)
(* mount-time load and the setItem calls of the save effect, each applied  *)
(* to the store on its own at some later time.  The save effect runs on    *)
(* the first render too.                                                   *)
(***************************************************************************)
UNREAD == <<"unread">>

\* the four setItem calls of one run of the save effect
SetItems(mm, ms, gm, gs) ==
    {[key |-> k, value |-> SaveTimerValues(mm, ms, gm, gs)[k]] : k \in STORAGE_KEYS}

\* the save effect of a re-render: its calls join the ones in flight
SaveEffect(mm, ms, gm, gs) ==
    IF <<mm, ms, gm, gs>> # <<mainTimerMinutes, mainTimerSeconds, getReadyMinutes, getReadySeconds>>
    THEN pendingWrites \cup SetItems(mm, ms, gm, gs)
    ELSE pendingWrites

\* the store when the screen mounts: no key, or every key with a number saved earlier
StoresAtMount ==
    {[k \in STORAGE_KEYS |-> NULL], [k \in STORAGE_KEYS |-> <<DecDigits[MaxDigit + 1]>>]}

\* the text typed into the main seconds field
StoreTexts == {<<"0">>}

InitStore ==
    /\ InitTimerPage
    /\ store \in StoresAtMount
    /\ reads = [k \in STORAGE_KEYS |-> UNREAD]
    /\ pendingWrites = SetItems(mainTimerMinutes, mainTimerSeconds, getReadyMinutes, getReadySeconds)
    /\ storedAtMount = store

\* one AsyncStorage.getItem of the load reads the store
getItem ==
    /\ loadPending
    /\ \E k \in STORAGE_KEYS :
          /\ reads[k] = UNREAD
          /\ reads' = [reads EXCEPT ![k] = store[k]]
    /\ UNCHANGED <<store, pendingWrites, storedAtMount>>
    /\ UNCHANGED timerVars
    /\ UNCHANGED soundVars

\* one AsyncStorage.setItem in flight is applied to the store
setItem ==
    /\ \E w \in pendingWrites :
          /\ store' = [store EXCEPT ![w.key] = w.value]
          /\ pendingWrites' = pendingWrites \ {w}
    /\ UNCHANGED <<reads, storedAtMount>>
    /\ UNCHANGED timerVars
    /\ UNCHANGED soundVars

\* Promise.all of the four getItem calls has resolved: the load sets what it read
loadTimerValuesRead ==
    /\ loadPending
    /\ \A k \in STORAGE_KEYS : reads[k] # UNREAD
    /\ LET mm2 == Loaded(reads["MAIN_TIMER_MINUTES"], mainTimerMinutes)
           ms2 == Loaded(reads["MAIN_TIMER_SECONDS"], mainTimerSeconds)
           gm2 == Loaded(reads["GET_READY_MINUTES"], getReadyMinutes)
           gs2 == Loaded(reads["GET_READY_SECONDS"], getReadySeconds)
       IN  /\ Render(mm2, ms2, gm2, gs2, timeLeft, isRunning, isPaused, modalVisible, getReadyPlayed)
           /\ HistoryRun("loadTimerValues", mm2, ms2, gm2, gs2)
           /\ pendingWrites' = SaveEffect(mm2, ms2, gm2, gs2)
    /\ loadPending' = FALSE
    /\ UNCHANGED <<store, reads, storedAtMount>>

\* onChangeText of the main seconds field, with the setItem calls of its save effect
typeMainTimerSeconds ==
    /\ modalVisible
    /\ \E text \in StoreTexts :
          LET ms2 == SecondsInput(text)
          IN  /\ Render(mainTimerMinutes, ms2, getReadyMinutes, getReadySeconds,
                        timeLeft, isRunning, isPaused, modalVisible, getReadyPlayed)
              /\ HistoryRun("onChangeText", mainTimerMinutes, ms2, getReadyMinutes, getReadySeconds)
              /\ pendingWrites' = SaveEffect(mainTimerMinutes, ms2, getReadyMinutes, getReadySeconds)
    /\ UNCHANGED <<loadPending, store, reads, storedAtMount>>

NextStore ==
    \/ getItem
    \/ setItem
    \/ loadTimerValuesRead
    \/ handleEdit
    \/ typeMainTimerSeconds
    \/ handleSave

SpecStore == InitStore /\ [][NextStore]_vars

\* setInterval: an interval that stays set fires
SpecLive == Init /\ [][Next]_vars /\ WF_vars(Tick)

(***************************************************************************)
(* The editor alone, with every text a field can be handed: a TextInput    *)
(* passes onChangeText whatever text it holds (typed, pasted or from a     *)
(* hardware keyboard), cut to its maxLength.                               *)
(***************************************************************************)
\* maxLength of a minutes field
MinutesMaxLength == 3

\* maxLength of a seconds field
SecondsMaxLength == 2

\* the characters of the texts: a sign, a digit, a character that is neither
EditChars == {"-", "6", "x"}

\* the texts of at most n characters
EditTexts(n) == UNION {[1..k -> EditChars] : k \in 0..n}

\* the texts handed to a field of the given maxLength
FieldTexts(maxLength) ==
    EditTexts(IF maxLength < MaxTextLength THEN maxLength ELSE MaxTextLength)

enterMainTimerMinutes ==
    \E text \in FieldTexts(MinutesMaxLength) :
        OnChangeText(MinutesInput(text), mainTimerSeconds, getReadyMinutes, getReadySeconds)

enterMainTimerSeconds ==
    \E text \in FieldTexts(SecondsMaxLength) :
        OnChangeText(mainTimerMinutes, SecondsInput(text), getReadyMinutes, getReadySeconds)

enterGetReadyMinutes ==
    \E text \in FieldTexts(MinutesMaxLength) :
        OnChangeText(mainTimerMinutes, mainTimerSeconds, MinutesInput(text), getReadySeconds)

enterGetReadySeconds ==
    \E text \in FieldTexts(SecondsMaxLength) :
        OnChangeText(mainTimerMinutes, mainTimerSeconds, getReadyMinutes, SecondsInput(text))

NextInput ==
    \/ handleEdit
    \/ handleSave
    \/ handleCancel
    \/ enterMainTimerMinutes
    \/ enterMainTimerSeconds
    \/ enterGetReadyMinutes
    \/ enterGetReadySeconds

SpecInput == Init /\ [][NextInput]_vars

(***************************************************************************)
(* Properties.  A run is what follows a start of handleStart, up to the    *)
(* next start; the spec's status is Running when isRunning /\ ~isPaused,   *)
(* Paused when isRunning /\ isPaused, Idle or Completed when ~isRunning.   *)
(***************************************************************************)
\* a JavaScript number that is a non-negative integer
IsCount(x) == ~IsNaN(x) /\ x[1] >= 0

Occurrences(kind, seq) == Cardinality({i \in DOMAIN seq : seq[i] = kind})

\* both configured durations are non-negative integers
ValidConfiguration == IsCount(totalTime) /\ IsCount(getReadyTime)

\* the run has come to its complete cue with the configuration it started with
FullRun == runStable /\ Occurrences("complete", cues) > 0

\* C1 (as claimed): after a start and exactly mainDurationSeconds ticks, nothing else
\* having happened, timeLeft is 0, the timer no longer runs and exactly one
\* complete cue has been emitted.
C1_CompletedAfterMainDurationTicks ==
    (runClean /\ IsCount(totalTime) /\ runTicks = totalTime[1])
        => (timeLeft = Num(0) /\ ~isRunning /\ Occurrences("complete", cues) = 1)

RunHasTicked == cues # <<>> \/ timeLeft # totalTime

C4_PauseOrPausedStep ==
    \/ isRunning /\ ~isPaused /\ isRunning' /\ isPaused'
    \/ isRunning /\ isPaused /\ isRunning'

\* C4: pausing, staying paused and resuming change neither timeLeft nor getReadyPlayed,
\* consume no tick and emit no cue, and a run never emits a second get-ready cue.
C4_PauseResumeFrame ==
    /\ [][C4_PauseOrPausedStep
            => /\ timeLeft' = timeLeft
               /\ getReadyPlayed' = getReadyPlayed
               /\ cues' = cues
               /\ lastOp' # "tick"]_vars
    /\ [](Occurrences("get-ready", cues) <= 1)

\* resumed (a handleStart that was not a start) after the get-ready cue of the run
C4_Witness ==
    /\ lastOp = "handleStart" /\ ~runClean
    /\ isRunning /\ ~isPaused
    /\ getReadyPlayed /\ cues = <<"get-ready">>

\* C5: handleSave always leaves the timer not running, not paused, timeLeft equal to
\* the configured totalTime, getReadyPlayed cleared and no interval active.
C5_SaveResets ==
    [][lastOp' = "handleSave"
         => /\ ~isRunning' /\ ~isPaused'
            /\ timeLeft' = totalTime'
            /\ ~getReadyPlayed'
            /\ ~intervalActive']_vars

\* saved from a paused run that had already emitted its get-ready cue
C5_Witness ==
    /\ lastOp = "handleSave"
    /\ cues = <<"get-ready">>
    /\ ~isRunning /\ timeLeft = totalTime

\* C6: handleCancel and onRequestClose change neither the configuration nor
\* timeLeft, isRunning, isPaused, getReadyPlayed.
C6_CancelFrame ==
    [][lastOp' \in {"handleCancel", "onRequestClose"}
         => UNCHANGED <<mainTimerMinutes, mainTimerSeconds, getReadyMinutes, getReadySeconds,
                        timeLeft, isRunning, isPaused, getReadyPlayed>>]_vars

\* cancelled while a run is paused
C6_Witness ==
    /\ lastOp = "handleCancel"
    /\ isRunning /\ isPaused /\ timeLeft # totalTime

\* C7 (as claimed): while the editor is open, and when it is cancelled, totalTime,
\* getReadyTime and the values handed to the store stay what they were (the
\* mount-time load apart).
C7_ConfigurationOnlyByCommit ==
    [][(modalVisible /\ loadPending' = loadPending)
         => /\ totalTime' = totalTime
            /\ getReadyTime' = getReadyTime
            /\ written' = written]_vars

\* C8 (as claimed): 0 <= timeLeft <= totalTime in every reachable state.
C8_RemainingWithinMain ==
    /\ IsCount(timeLeft)
    /\ ~IsNaN(totalTime)
    /\ timeLeft[1] <= totalTime[1]

\* C9: handleStart starts a run when not running, pauses when running and not paused,
\* resumes when paused; pause and resume leave timeLeft alone.
C9_PrimaryActionDispatch ==
    [][lastOp' = "handleStart"
         => /\ ~isRunning => (isRunning' /\ ~isPaused')
            /\ (isRunning /\ ~isPaused) => (isRunning' /\ isPaused' /\ timeLeft' = timeLeft)
            /\ (isRunning /\ isPaused) => (isRunning' /\ ~isPaused' /\ timeLeft' = timeLeft)]_vars

\* start, pause, resume with no tick in between
C9_Witness ==
    /\ lastOp = "handleStart" /\ ~runClean /\ runStable
    /\ isRunning /\ ~isPaused
    /\ timeLeft = totalTime /\ cues = <<>>

\* the last step was the tick that completed a run of the starting configuration
\* with getReadyTime = 0 < totalTime
C10_CompletingTickAtOffsetZero ==
    /\ runStable /\ ValidConfiguration
    /\ getReadyTime[1] = 0 /\ totalTime[1] > 0
    /\ Occurrences("complete", tickCues) > 0

C11_CompletedByStartAlone ==
    (lastOp = "handleStart" /\ runClean /\ totalTime = Num(0))
        => (~isRunning /\ cues = <<"complete">>)

\* a run of start and ticks only, with 0 < getReadyTime < totalTime
C12_CleanRunWithOffsetInside ==
    /\ runClean /\ ValidConfiguration
    /\ 0 < getReadyTime[1] /\ getReadyTime[1] < totalTime[1]
    /\ runTicks < MaxTicks

\* C12 (as claimed): with 0 < getReadyTime < totalTime, after the start and exactly
\* totalTime - getReadyTime ticks, timeLeft equals getReadyTime and the get-ready cue
\* has been emitted, by that last tick.
C12_GetReadyEmittedWhenOffsetRemains ==
    (C12_CleanRunWithOffsetInside /\ runTicks = totalTime[1] - getReadyTime[1])
        => /\ timeLeft = getReadyTime
           /\ cues = <<"get-ready">>
           /\ tickCues = <<"get-ready">>

\* C12 (amended): with 0 < getReadyTime < totalTime, after the start and exactly
\* totalTime - getReadyTime ticks, timeLeft equals getReadyTime and no cue has been
\* emitted yet; the next tick emits the get-ready cue and leaves getReadyTime - 1.
C12_GetReadyOnTickAfterOffsetRemains ==
    C12_CleanRunWithOffsetInside
        => /\ runTicks = totalTime[1] - getReadyTime[1]
                => (timeLeft = getReadyTime /\ cues = <<>> /\ ~getReadyPlayed)
           /\ runTicks = totalTime[1] - getReadyTime[1] + 1
                => /\ timeLeft = JsSub(getReadyTime, Num(1))
                   /\ cues = <<"get-ready">>
                   /\ tickCues = <<"get-ready">>
                   /\ getReadyPlayed

\* the default configuration of timerPage.tsx, 1:30 with 0:05, after start and 86 ticks
C12_Witness ==
    /\ C12_CleanRunWithOffsetInside
    /\ totalTime = DefaultTimeLeft("timerPage") /\ getReadyTime = DefaultGetReadySeconds(rev)
    /\ runTicks = totalTime[1] - getReadyTime[1] + 1
    /\ cues = <<"get-ready">>

\* C13: in every run, whatever ticks, pauses and resumes it is made of, the complete
\* cue is emitted at most once, and once it has been emitted no tick is processed
\* until the next start.
C13_CompleteAtMostOncePerRun ==
    /\ [](Occurrences("complete", cues) <= 1)
    /\ [][Occurrences("complete", cues) > 0 => lastOp' # "tick"]_vars

\* a run that was paused and resumed on its way has just completed
C13_Witness ==
    /\ lastOp = "tick" /\ ~runClean /\ runStable
    /\ ~isRunning /\ ~intervalActive
    /\ tickCues = <<"complete">>
    /\ Occurrences("complete", cues) = 1

\* C14 (as claimed): the configuration the mount-time load leaves has no NaN field:
\* a key whose stored text is absent or not numeric leaves its field a number.
C14_LoadedConfigurationNeverNaN ==
    lastOp = "loadTimerValues"
        => /\ ~IsNaN(mainTimerMinutes)
           /\ ~IsNaN(mainTimerSeconds)
           /\ ~IsNaN(getReadyMinutes)
           /\ ~IsNaN(getReadySeconds)

\* C15 (as claimed): whatever text an edit field is handed, the seconds fields lie in
\* 0..59 and the minutes fields are at least 0, in the editor and when saved.
C15_EditFieldsWithinRange ==
    lastOp \in {"onChangeText", "handleSave"}
        => /\ IsCount(mainTimerMinutes)
           /\ IsCount(getReadyMinutes)
           /\ IsCount(mainTimerSeconds) /\ JsLeq(mainTimerSeconds, Num(MaxSecondsField))
           /\ IsCount(getReadySeconds) /\ JsLeq(getReadySeconds, Num(MaxSecondsField))

\* C16: in every reachable state the one-second interval is active exactly when the
\* timer is running and not paused, at most one interval is live, and every tick is
\* taken from a running, not paused state: none changes timeLeft or emits a cue
\* while the timer is idle, paused or completed.
C16_IntervalExactlyWhileRunning ==
    /\ [](intervalActive <=> (isRunning /\ ~isPaused))
    /\ [](liveIntervals <= 1 /\ (intervalActive <=> liveIntervals = 1))
    /\ [][(lastOp' = "tick" \/ cues' \notin {cues, <<>>}) => (isRunning /\ ~isPaused)]_vars

\* paused in the middle of a run: the interval of the run has been cleared
C16_Witness ==
    /\ lastOp = "handleStart"
    /\ isRunning /\ isPaused
    /\ ~intervalActive /\ liveIntervals = 0
    /\ RunHasTicked

\* C17 (as claimed): every tick, all of them taken while running and not paused,
\* leaves timeLeft exactly 1 below what it was, and timeLeft is never negative.
C17_EveryTickDecrementsByOne ==
    /\ [][lastOp' = "tick" => timeLeft' = JsSub(timeLeft, Num(1))]_vars
    /\ [](IsNaN(timeLeft) \/ timeLeft[1] >= 0)

\* the cues of a run of start and k ticks only, with main duration n and offset g
C18_RunCues(n, g, k) ==
    (IF 0 < g /\ g <= n /\ k >= n - g + 1 THEN <<"get-ready">> ELSE <<>>)
        \o (IF k >= n + 1 THEN <<"complete">> ELSE <<>>)

\* C18: a start from a not running state, completed or idle, leaves the timer
\* running, not paused, timeLeft equal to totalTime and getReadyPlayed false whatever
\* they were before; and the cues of a run of start and ticks depend on the
\* configuration and the number of ticks only, so a run started after a completed
\* run emits the cues of a first run.
C18_StartFromCompletedAsFromIdle ==
    /\ [][(lastOp' = "handleStart" /\ ~isRunning)
            => /\ isRunning' /\ ~isPaused' /\ intervalActive'
               /\ timeLeft' = totalTime
               /\ ~getReadyPlayed'
               /\ cues' = <<>>]_vars
    /\ []((runClean /\ ValidConfiguration /\ runTicks < MaxTicks)
            => cues = C18_RunCues(totalTime[1], getReadyTime[1], runTicks))

\* a run started right after the completing tick of the run before it has completed
C18_Witness ==
    /\ restarted /\ runClean
    /\ ~isRunning /\ lastOp = "tick"
    /\ cues = <<"get-ready", "complete">>

\* the get-ready cue is among the cues of the step just taken
C19_GetReadyOnStep == Occurrences("get-ready", tickCues') > 0

\* C19 (as claimed): a tick emits the get-ready cue exactly when timeLeft before the
\* tick equals getReadyTime and getReadyPlayed is false, and that tick then sets
\* getReadyPlayed and leaves timeLeft at getReadyTime - 1.
C19_GetReadyOnTickAtOffset ==
    [][lastOp' = "tick"
         => /\ C19_GetReadyOnStep <=> (JsStrictEq(timeLeft, getReadyTime) /\ ~getReadyPlayed)
            /\ C19_GetReadyOnStep
                 => (getReadyPlayed' /\ timeLeft' = JsSub(getReadyTime, Num(1)))]_vars

\* C20: in a run no get-ready cue is emitted after the complete cue, and with
\* getReadyTime other than 0 no tick emits both the get-ready and the complete cue.
C20_GetReadyBeforeCompleteOnOtherTick ==
    /\ \A i, j \in DOMAIN cues : (cues[i] = "complete" /\ cues[j] = "get-ready") => j < i
    /\ getReadyTime # Num(0)
         => ~(Occurrences("get-ready", tickCues) > 0 /\ Occurrences("complete", tickCues) > 0)

\* the tick after the one that emitted the get-ready cue has completed a run with
\* getReadyTime = 1
C20_Witness ==
    /\ runClean /\ getReadyTime = Num(1)
    /\ lastOp = "tick" /\ tickCues = <<"complete">>
    /\ cues = <<"get-ready", "complete">>

\* C27: the edit modal is never open while the timer is running and not paused, and
\* handleSave, handleCancel, the modal's close request and the edit inputs are only
\* ever taken from a state that is not running or is paused.
C27_EditorNeverWhileRunning ==
    /\ [](~(modalVisible /\ isRunning /\ ~isPaused))
    /\ [][lastOp' \in {"handleSave", "handleCancel", "onRequestClose", "onChangeText"}
            => ~(isRunning /\ ~isPaused)]_vars

\* an edit input taken while a run is paused
C27_Witness ==
    /\ lastOp = "onChangeText"
    /\ modalVisible /\ isRunning /\ isPaused

\* C22: in part_000, in every state where the timer is not running, timeLeft is
\* totalTime (after the load, after an edit input, right after a run completes); and
\* a step that changes totalTime while the timer is running, paused or not, leaves
\* timeLeft as it was.
C22_TimeLeftFollowsTotalTimeWhenNotRunning ==
    /\ []((rev = "part_000" /\ ~isRunning) => timeLeft = totalTime)
    /\ [][(rev = "part_000" /\ isRunning /\ isRunning' /\ totalTime' # totalTime)
            => timeLeft' = timeLeft]_vars

\* part_000 right after the completing tick of a run of a non-zero duration
C22_Witness ==
    /\ rev = "part_000"
    /\ lastOp = "tick" /\ ~isRunning /\ tickCues = <<"complete">>
    /\ timeLeft = totalTime /\ totalTime # Num(0) /\ ~IsNaN(totalTime)

\* C25 (as claimed): the mount-time load never changes totalTime or getReadyTime
\* while a run is in progress, running or paused.
C25_LoadLeavesRunAlone ==
    [][(lastOp' = "loadTimerValues" /\ isRunning)
         => (totalTime' = totalTime /\ getReadyTime' = getReadyTime)]_vars

\* the interval is set again and again, yet from some point on no tick is processed
C24_TicksWithheld == []<>intervalActive /\ <>[](lastOp # "tick")

\* the run has ended: by its complete cue, or reset by handleSave
C24_RunEnded ==
    \/ ~isRunning /\ Occurrences("complete", cues) > 0
    \/ ~isRunning /\ lastOp = "handleSave"

\* C24: a run whose timeLeft is a non-negative integer ends with the complete cue and
\* the timer not running, unless handleSave resets it, it is left paused for ever, or
\* ticks are withheld although the timer is running again and again.
C24_RunEventuallyCompletes ==
    \/ C24_TicksWithheld
    \/ <>[](isRunning /\ isPaused)
    \/ []((isRunning /\ IsCount(timeLeft)) => <>C24_RunEnded)

\* a run of more than one second has completed by ticks alone
C24_Witness ==
    /\ runClean /\ lastOp = "tick" /\ ~isRunning
    /\ IsCount(totalTime) /\ totalTime[1] > 1
    /\ runTicks = totalTime[1] + 1
    /\ Occurrences("complete", cues) = 1

\* C23 (as claimed): whenever the long beep sound of timerPage.tsx has fallen silent,
\* it has played to its end 3 times for each playLongBeep call made since it was last
\* silent, calls made while earlier plays were in progress included, and its status
\* callback is removed.
C23_ThreePlaysPerCompleteCue ==
    (~soundPlaying /\ 0 < beepCalls /\ beepCalls < MaxBeepCalls)
        => (playsFinished = LongBeepPlays * beepCalls /\ ~statusListener)

\* C21 (as claimed): after handleSave, once no setItem call is in flight any more, the
\* store holds under each of the four keys the text of the configuration in memory.
C21_StoreHoldsCommittedConfiguration ==
    (lastOp = "handleSave" /\ pendingWrites = {})
        => store = SaveTimerValues(mainTimerMinutes, mainTimerSeconds,
                                   getReadyMinutes, getReadySeconds)

\* every key held a number when the screen mounted
C26_AllSavedAtMount == \A k \in STORAGE_KEYS : storedAtMount[k] # NULL

\* C26 (as claimed): if every key held a number when the screen mounted, then once the
\* load has set what it read and no setItem call is in flight any more (no handler
\* having run since), the configuration in memory and the store are what was stored
\* at mount.
C26_StartupKeepsSavedSettings ==
    (C26_AllSavedAtMount /\ lastOp = "loadTimerValues" /\ pendingWrites = {})
        => /\ store = storedAtMount
           /\ SaveTimerValues(mainTimerMinutes, mainTimerSeconds,
                              getReadyMinutes, getReadySeconds) = storedAtMount

====
